---- MODULE Spec2Model ----
(***************************************************************************)
(* A model of the chores engine: one Chore (chore_core.py) with its        *)
(* trigger (triggers.py), completion (completions.py) and reset policy     *)
(* (resets.py), driven by the coordinator (coordinator.py) and persisted   *)
(* through the store (store.py).                                           *)
(*                                                                         *)
(* Time is counted in ticks; a day has DayLen ticks and day 0 is a Monday. *)
(* An optional value (Python's None) is the empty sequence, a present one  *)
(* the one-element sequence.  The state_entered_at of the two stages is    *)
(* only ever displayed and is left out; the chore's own is kept.           *)
(***************************************************************************)
EXTENDS Integers, Sequences, FiniteSets, TLC

VARIABLES
    cfg,         \* the chore's configuration (fixed after construction)
    utcnow,      \* the wall clock, in ticks
    hass,        \* hass.states: the current value of each watched entity
    up,          \* whether the process is running
    chores,      \* ChoresCoordinator._chores: the ids of the registered chores
    chore,       \* the Chore's own fields
    trigger,     \* the trigger's fields
    completion,  \* the completion's fields
    store,       \* ChoreStore._data for this chore (in memory)
    saved,       \* whether the store has been written to disk since it changed
    restarts,    \* how many times the process has been restarted
    completions, \* how many times the chore has been completed
    last         \* what the last operation was and what it returned

vars == <<cfg, utcnow, hass, up, chores, chore, trigger, completion, store, saved, restarts,
          completions, last>>

----------------------------------------------------------------------------
\* Bounds of the model.

MaxTime == 3
DayLen == 2
MaxRestarts == 1
MaxCompletions == 1

\* Keep last 100 records in memory.
HistoryCap == 100

----------------------------------------------------------------------------
\* Optional values and time arithmetic.

None == <<>>
Some(x) == <<x>>
IsNone(o) == o = <<>>
Val(o) == o[1]

\* datetime.replace(hour=.., minute=.., second=0, microsecond=0)
ReplaceTime(dt, t) == (dt - (dt % DayLen)) + t
\* datetime.weekday(), day 0 being a Monday
WeekdayOf(dt) == (dt \div DayLen) % 7

\* datetime.isoformat() and dt_util.parse_datetime(): a timestamp is stored
\* as a string and read back from it.
IsoFormat(dt) == <<"iso", dt>>
ParseDatetime(s) == IF Len(s) = 2 /\ s[1] = "iso" THEN Some(s[2]) ELSE None

----------------------------------------------------------------------------
\* Enumerations (const.py).

ChoreState == {"inactive", "pending", "due", "started", "completed"}
SubState == {"idle", "active", "done"}
TriggerType == {"power_cycle", "state_change", "daily", "weekly", "duration"}
CompletionType == {"manual", "sensor_state", "contact", "contact_cycle", "presence_cycle"}

\* Values an entity of hass.states can report.
EntityValues == {"on", "off", "unavailable"}
\* Values the power sensor can report: two numbers, and two that are none.
PowerValues == {"5", "15", "unavailable", "abc"}

\* float(state.state): the number a reading parses to, if it parses.
ParseFloat(s) == CASE s = "5" -> Some(5) [] s = "15" -> Some(15) [] OTHER -> None

----------------------------------------------------------------------------
\* Configurations.  The trigger's entity moves from "off" to "on"
\* (state_change), or is timed while "on" (duration); a gate expects "on".

TriggerConfig(type, gate, time, schedule, span) ==
    [type |-> type, gate |-> gate, time |-> time, schedule |-> schedule,
     power_threshold |-> 10, cooldown_minutes |-> span, duration_hours |-> span,
     from |-> "off", to |-> "on", state |-> "on", gate_state |-> "on"]

NoReset == [type |-> "absent", minutes |-> 0, time |-> 0]
DelayResetConfig(m) == [type |-> "delay", minutes |-> m, time |-> 0]
DailyResetConfig(t) == [type |-> "daily_reset", minutes |-> 0, time |-> t]

ChoreConfig(trig, comp, reset) ==
    [trigger |-> trig, completion |-> [type |-> comp, state |-> "on"], reset |-> reset]

Configs ==
    { ChoreConfig(TriggerConfig("power_cycle", FALSE, 0, <<>>, 1), "manual", NoReset),
      ChoreConfig(TriggerConfig("daily", TRUE, 1, <<>>, 0), "contact", NoReset),
      ChoreConfig(TriggerConfig("daily", FALSE, 1, <<>>, 0), "contact_cycle", DelayResetConfig(0)),
      ChoreConfig(TriggerConfig("daily", FALSE, 1, <<>>, 0), "sensor_state", DailyResetConfig(0)),
      ChoreConfig(TriggerConfig("weekly", TRUE, 0, <<<<1, 1>>, <<2, 0>>>>, 0), "manual", NoReset),
      ChoreConfig(TriggerConfig("duration", TRUE, 0, <<>>, 1), "manual", DelayResetConfig(1)),
      ChoreConfig(TriggerConfig("state_change", FALSE, 0, <<>>, 0), "presence_cycle", NoReset) }

\* config["id"] and config["name"] of the chore the model follows, the id of
\* a second chore configured next to it, and an id no chore has.
ChoreId == "unload_washing"
ChoreName == "Unload Washing Machine"
OtherId == "take_vitamins"
NoSuchId == "nonexistent"

----------------------------------------------------------------------------
\* Triggers (triggers.py).

NewTrigger ==
    [state |-> "idle",
     machine_running |-> FALSE, power_dropped_at |-> None,
     time_fired_today |-> FALSE,
     state_since |-> None, duration_elapsed |-> FALSE]

TriggerSetState(t, new_state, now) ==
    IF new_state = t.state THEN t
    ELSE [t EXCEPT !.state = new_state]

TriggerResetInternal(t) ==
    CASE cfg.trigger.type = "power_cycle" ->
            [t EXCEPT !.power_dropped_at = None, !.machine_running = FALSE]
      [] cfg.trigger.type \in {"daily", "weekly"} ->
            [t EXCEPT !.time_fired_today = FALSE]
      [] cfg.trigger.type = "duration" ->
            [t EXCEPT !.state_since = None, !.duration_elapsed = FALSE]
      [] OTHER -> t

TriggerReset(t, now) == TriggerResetInternal(TriggerSetState(t, "idle", now))

\* The slip of taking a sensor that cannot be read for one that reads below
\* the threshold.
IsAboveThresholdUnreadableBelow(h) ==
    IF ~IsNone(ParseFloat(h.power)) /\ Val(ParseFloat(h.power)) > cfg.trigger.power_threshold
    THEN "true" ELSE "false"

\* "true", "false", or "none" when the sensor is unavailable/unknown.
IsAboveThreshold(h) ==
    IF h.power \in {"unknown", "unavailable"} THEN "none"
    ELSE IF ~IsNone(ParseFloat(h.power)) /\ Val(ParseFloat(h.power)) > cfg.trigger.power_threshold
         THEN "true" ELSE "false"

EvaluatePower(t, h, now) ==
    LET above == IsAboveThreshold(h) IN
    CASE above = "true" ->
            LET t1 == [t EXCEPT !.machine_running = TRUE, !.power_dropped_at = None]
            IN IF t1.state = "idle" THEN TriggerSetState(t1, "active", now) ELSE t1
      [] above = "false" ->
            IF t.machine_running /\ IsNone(t.power_dropped_at)
            THEN [t EXCEPT !.power_dropped_at = Some(now)]
            ELSE t
      [] OTHER -> t

\* The slip of going to done as soon as the power has dropped, without
\* waiting for the cooldown.
PowerCycleEvaluateNoCooldown(t, now) ==
    IF t.state = "active" /\ ~IsNone(t.power_dropped_at)
    THEN [TriggerSetState(t, "done", now) EXCEPT !.machine_running = FALSE]
    ELSE t

\* PowerCycleTrigger.evaluate
PowerCycleEvaluate(t, now) ==
    IF t.state = "active" /\ ~IsNone(t.power_dropped_at)
       /\ now - Val(t.power_dropped_at) >= cfg.trigger.cooldown_minutes
    THEN [TriggerSetState(t, "done", now) EXCEPT !.machine_running = FALSE]
    ELSE t

IsGateMet(h) == (~cfg.trigger.gate) \/ h.gate = cfg.trigger.gate_state

\* A variant that never looks at the gate: C4 does not survive it.
TimeFiredUngated(t, h, now) ==
    TriggerSetState([t EXCEPT !.time_fired_today = TRUE], "done", now)

\* The time is reached: done, or active while the gate is unmet.
TimeFired(t, h, now) ==
    LET t1 == [t EXCEPT !.time_fired_today = TRUE] IN
    IF cfg.trigger.gate
    THEN IF IsGateMet(h) THEN TriggerSetState(t1, "done", now)
         ELSE TriggerSetState(t1, "active", now)
    ELSE TriggerSetState(t1, "done", now)

DailyEvaluate(t, h, now) ==
    IF t.state = "idle" /\ ~t.time_fired_today /\ now >= ReplaceTime(now, cfg.trigger.time)
    THEN TimeFired(t, h, now)
    ELSE t

\* The first schedule entry for today's weekday, if any.
TodaysTriggerTime(now) ==
    LET sched == cfg.trigger.schedule
        hits == {i \in 1..Len(sched) : sched[i][1] = WeekdayOf(now)}
    IN IF hits = {} THEN None
       ELSE Some(sched[CHOOSE i \in hits : \A j \in hits : i <= j][2])

WeeklyEvaluate(t, h, now) ==
    IF t.state = "idle" /\ ~t.time_fired_today
       /\ ~IsNone(TodaysTriggerTime(now))
       /\ now >= ReplaceTime(now, Val(TodaysTriggerTime(now)))
    THEN TimeFired(t, h, now)
    ELSE t

DurationEvaluate(t, h, now) ==
    LET readable == h.entity \notin {"unknown", "unavailable"}
        t1 == IF t.state = "idle" /\ readable /\ h.entity = cfg.trigger.state
              THEN TriggerSetState(
                       [t EXCEPT !.state_since = IF IsNone(t.state_since) THEN Some(now) ELSE @],
                       "active", now)
              ELSE t
    IN IF t1.state = "active" /\ ~IsNone(t1.state_since)
       THEN IF ~t1.duration_elapsed
            THEN IF readable /\ h.entity # cfg.trigger.state
                 THEN TriggerSetState([t1 EXCEPT !.state_since = None], "idle", now)
                 ELSE IF now - Val(t1.state_since) >= cfg.trigger.duration_hours
                      THEN LET t2 == [t1 EXCEPT !.duration_elapsed = TRUE] IN
                           IF cfg.trigger.gate
                           THEN IF IsGateMet(h) THEN TriggerSetState(t2, "done", now) ELSE t2
                           ELSE TriggerSetState(t2, "done", now)
                      ELSE t1
            ELSE IF cfg.trigger.gate /\ IsGateMet(h)
                 THEN TriggerSetState(t1, "done", now)
                 ELSE t1
       ELSE t1

TriggerEvaluate(t, h, now) ==
    CASE cfg.trigger.type = "power_cycle" -> PowerCycleEvaluate(t, now)
      [] cfg.trigger.type = "daily" -> DailyEvaluate(t, h, now)
      [] cfg.trigger.type = "weekly" -> WeeklyEvaluate(t, h, now)
      [] cfg.trigger.type = "duration" -> DurationEvaluate(t, h, now)
      [] OTHER -> t

----------------------------------------------------------------------------
\* Trigger listeners.  Each returns the trigger after the callback and
\* whether the callback called on_state_change().

Heard(t, cb) == [t |-> t, cb |-> cb]

\* PowerCycleTrigger._handle_state_change
PowerListener(t, h, now) == Heard(EvaluatePower(t, h, now), TRUE)

\* StateChangeTrigger._handle_state_change
StateChangeListener(t, old_val, new_val, now) ==
    IF new_val = cfg.trigger.from /\ t.state = "idle"
    THEN Heard(TriggerSetState(t, "active", now), TRUE)
    ELSE IF old_val = cfg.trigger.from /\ new_val = cfg.trigger.to
            /\ t.state \in {"idle", "active"}
         THEN Heard(TriggerSetState(t, "done", now), TRUE)
         ELSE Heard(t, FALSE)

\* DailyTrigger._handle_time
DailyTimeListener(t, h, now) ==
    IF t.state # "idle" THEN Heard(t, FALSE)
    ELSE Heard(TimeFired(t, h, now), TRUE)

\* WeeklyTrigger._handle_time, one listener per distinct time of the
\* schedule, each with the weekdays that share that time.
WeeklyTimeListener(t, h, now, days) ==
    IF t.state # "idle" \/ WeekdayOf(now) \notin days THEN Heard(t, FALSE)
    ELSE Heard(TimeFired(t, h, now), TRUE)

\* DailyTrigger._handle_gate and WeeklyTrigger._handle_gate
TimeGateListener(t, old_val, new_val, now) ==
    IF t.state # "active" THEN Heard(t, FALSE)
    ELSE IF old_val \in {"unavailable", "unknown"} THEN Heard(t, FALSE)
    ELSE IF new_val = cfg.trigger.gate_state
         THEN Heard(TriggerSetState(t, "done", now), TRUE)
         ELSE Heard(t, FALSE)

\* The slip of clearing the timer when the entity becomes unavailable.
DurationListenerBlip(t, old_val, new_val, now) ==
    IF old_val \in {"unavailable", "unknown"} THEN Heard(t, FALSE)
    ELSE IF old_val = new_val THEN Heard(t, FALSE)
    ELSE IF new_val = cfg.trigger.state /\ t.state = "idle"
         THEN Heard(TriggerSetState([t EXCEPT !.state_since = Some(now)], "active", now), TRUE)
    ELSE IF new_val # cfg.trigger.state /\ t.state = "active" /\ ~t.duration_elapsed
         THEN Heard(TriggerSetState([t EXCEPT !.state_since = None], "idle", now), TRUE)
    ELSE Heard(t, FALSE)

\* DurationTrigger._handle_state_change
DurationListener(t, old_val, new_val, now) ==
    IF old_val \in {"unavailable", "unknown"} THEN Heard(t, FALSE)
    ELSE IF new_val \in {"unavailable", "unknown"} THEN Heard(t, FALSE)
    ELSE IF old_val = new_val THEN Heard(t, FALSE)
    ELSE IF new_val = cfg.trigger.state /\ t.state = "idle"
         THEN Heard(TriggerSetState([t EXCEPT !.state_since = Some(now)], "active", now), TRUE)
    ELSE IF new_val # cfg.trigger.state /\ t.state = "active" /\ ~t.duration_elapsed
         THEN Heard(TriggerSetState([t EXCEPT !.state_since = None], "idle", now), TRUE)
    ELSE Heard(t, FALSE)

\* DurationTrigger._handle_gate
DurationGateListener(t, old_val, new_val, now) ==
    IF t.state # "active" \/ ~t.duration_elapsed THEN Heard(t, FALSE)
    ELSE IF old_val \in {"unavailable", "unknown"} THEN Heard(t, FALSE)
    ELSE IF new_val = cfg.trigger.gate_state
         THEN Heard(TriggerSetState(t, "done", now), TRUE)
         ELSE Heard(t, FALSE)

----------------------------------------------------------------------------
\* Completions (completions.py).

StepsTotal == IF cfg.completion.type \in {"contact_cycle", "presence_cycle"} THEN 2 ELSE 1

NewCompletion ==
    [state |-> "idle", steps_done |-> 0, enabled |-> FALSE]

CompletionEnable(c) == [c EXCEPT !.enabled = TRUE]

CompletionDisable(c) == [c EXCEPT !.enabled = FALSE]

CompletionSetState(c, new_state, now) ==
    IF new_state = c.state THEN c
    ELSE [c EXCEPT !.state = new_state,
                   !.steps_done = CASE new_state = "active" -> 1
                                    [] new_state = "done" -> StepsTotal
                                    [] OTHER -> @]

\* A variant that only sets the state back: C20 does not survive it.
CompletionResetStateOnly(c, now) == [c EXCEPT !.state = "idle"]

CompletionReset(c, now) ==
    [c EXCEPT !.state = "idle", !.steps_done = 0, !.enabled = FALSE]

\* The slip of listening while the completion is disabled.
SingleStepListenerAlways(c, new_val, target, now) ==
    IF new_val = target /\ c.state # "done"
    THEN Heard(CompletionSetState(c, "done", now), TRUE)
    ELSE Heard(c, FALSE)

\* SensorStateCompletion._handle_state_change and
\* ContactCompletion._handle_state_change (whose target is "on")
SingleStepListener(c, new_val, target, now) ==
    IF ~c.enabled THEN Heard(c, FALSE)
    ELSE IF new_val = target /\ c.state # "done"
         THEN Heard(CompletionSetState(c, "done", now), TRUE)
         ELSE Heard(c, FALSE)

\* ContactCycleCompletion._handle_state_change (first "on", second "off")
\* and PresenceCycleCompletion._handle_state_change (away, then home)
TwoStepListener(c, new_val, first, second, now) ==
    IF ~c.enabled THEN Heard(c, FALSE)
    ELSE IF new_val = first /\ c.state = "idle"
         THEN Heard(CompletionSetState(c, "active", now), TRUE)
    ELSE IF new_val = second /\ c.state = "active"
         THEN Heard(CompletionSetState(c, "done", now), TRUE)
    ELSE Heard(c, FALSE)

CompletionListener(c, new_val, now) ==
    CASE cfg.completion.type = "sensor_state" ->
            SingleStepListener(c, new_val, cfg.completion.state, now)
      [] cfg.completion.type = "contact" -> SingleStepListener(c, new_val, "on", now)
      [] cfg.completion.type = "contact_cycle" -> TwoStepListener(c, new_val, "on", "off", now)
      [] cfg.completion.type = "presence_cycle" -> TwoStepListener(c, new_val, "off", "on", now)
      [] OTHER -> Heard(c, FALSE)

----------------------------------------------------------------------------
\* Reset policies (resets.py).

\* A variant whose default is the daily policy whatever the trigger: C22
\* does not survive it.
ResetTypeDailyDefault ==
    IF cfg.reset.type \in {"delay", "daily_reset"} THEN cfg.reset.type
    ELSE CASE cfg.trigger.type = "weekly" -> "implicit_weekly"
           [] OTHER -> "implicit_daily"

\* create_reset: the policy a configuration gets.
ResetType ==
    IF cfg.reset.type \in {"delay", "daily_reset"} THEN cfg.reset.type
    ELSE CASE cfg.trigger.type = "daily" -> "implicit_daily"
           [] cfg.trigger.type = "weekly" -> "implicit_weekly"
           [] OTHER -> "implicit_event"

\* The slip of comparing with > : a completion at the very time of day
\* would be reset at once.
DailyNextOccurrenceSameInstant(after, t) ==
    LET candidate == ReplaceTime(after, t)
    IN IF after > candidate THEN candidate + DayLen ELSE candidate

\* DailyReset._next_occurrence_after, ImplicitDailyReset._next_occurrence_after
DailyNextOccurrenceAfter(after, t) ==
    LET candidate == ReplaceTime(after, t)
    IN IF after >= candidate THEN candidate + DayLen ELSE candidate

\* The slip of leaving a candidate that is not after the completion in the
\* current week.
WeeklyCandidateThisWeek(after, entry) ==
    LET days_ahead == IF entry[1] - WeekdayOf(after) < 0
                      THEN entry[1] - WeekdayOf(after) + 7
                      ELSE entry[1] - WeekdayOf(after)
    IN ReplaceTime(after, entry[2]) + days_ahead * DayLen

\* The candidate of one schedule entry in ImplicitWeeklyReset._next_occurrence_after
WeeklyCandidate(after, entry) ==
    LET days_ahead == IF entry[1] - WeekdayOf(after) < 0
                      THEN entry[1] - WeekdayOf(after) + 7
                      ELSE entry[1] - WeekdayOf(after)
        candidate == ReplaceTime(after, entry[2]) + days_ahead * DayLen
    IN IF candidate <= after THEN candidate + 7 * DayLen ELSE candidate

WeeklyNextOccurrenceAfter(after, schedule) ==
    IF Len(schedule) = 0 THEN after + DayLen
    ELSE LET cands == {WeeklyCandidate(after, schedule[i]) : i \in 1..Len(schedule)}
         IN CHOOSE b \in cands : \A x \in cands : b <= x

\* The slip of a delay reset that never comes.
ShouldResetNoDelay(completed_at, now) ==
    CASE ResetType = "delay" -> FALSE
      [] ResetType = "daily_reset" ->
            now >= DailyNextOccurrenceAfter(completed_at, cfg.reset.time)
      [] ResetType = "implicit_daily" ->
            now >= DailyNextOccurrenceAfter(completed_at, cfg.trigger.time)
      [] ResetType = "implicit_weekly" ->
            now >= WeeklyNextOccurrenceAfter(completed_at, cfg.trigger.schedule)
      [] OTHER -> TRUE

ShouldReset(completed_at, now) ==
    CASE ResetType = "delay" ->
            IF cfg.reset.minutes <= 0 THEN TRUE
            ELSE now - completed_at >= cfg.reset.minutes
      [] ResetType = "daily_reset" ->
            now >= DailyNextOccurrenceAfter(completed_at, cfg.reset.time)
      [] ResetType = "implicit_daily" ->
            now >= DailyNextOccurrenceAfter(completed_at, cfg.trigger.time)
      [] ResetType = "implicit_weekly" ->
            now >= WeeklyNextOccurrenceAfter(completed_at, cfg.trigger.schedule)
      [] OTHER -> TRUE

----------------------------------------------------------------------------
\* The Chore (chore_core.py).  An operation works on the chore together
\* with its two stages, and leaves in ret what it returns: the old state,
\* or "none".

NewChore ==
    [state |-> "inactive", state_entered_at |-> utcnow, due_since |-> None,
     last_completed |-> None, forced |-> FALSE, completion_history |-> <<>>]

World(ch, t, c) == [chore |-> ch, trigger |-> t, completion |-> c, ret |-> "none"]

\* A variant that slices nothing off: C9 does not survive it.
LastNAll(seq, n) == seq

\* list[-n:]
LastN(seq, n) == IF Len(seq) > n THEN SubSeq(seq, Len(seq) - n + 1, Len(seq)) ELSE seq

\* A variant that takes every completion for a sensor's: C10 does not
\* survive it.
RecordCompletionBySensor(ch, forced, now) ==
    LET record == [completed_at |-> IsoFormat(now), completed_by |-> "sensor"]
        appended == Append(ch.completion_history, record)
    IN [ch EXCEPT !.completion_history =
            IF Len(appended) > HistoryCap THEN LastN(appended, HistoryCap) ELSE appended]

RecordCompletion(ch, forced, now) ==
    LET record == [completed_at |-> IsoFormat(now),
                   completed_by |-> IF forced THEN "forced"
                                    ELSE IF cfg.completion.type = "manual" THEN "manual"
                                    ELSE "sensor"]
        appended == Append(ch.completion_history, record)
    IN [ch EXCEPT !.completion_history =
            IF Len(appended) > HistoryCap THEN LastN(appended, HistoryCap) ELSE appended]

\* A variant that forgets last_completed on the way to completed: C11 does
\* not survive it.
SetStateNoLastCompleted(w, new_state, forced, now) ==
    IF new_state = w.chore.state THEN [w EXCEPT !.ret = "none"]
    ELSE LET c1 == [w.chore EXCEPT !.state = new_state, !.state_entered_at = now,
                                   !.forced = forced]
             c2 == CASE new_state = "due" -> [c1 EXCEPT !.due_since = Some(now)]
                     [] new_state = "completed" -> RecordCompletion(c1, forced, now)
                     [] new_state = "inactive" -> [c1 EXCEPT !.due_since = None]
                     [] OTHER -> c1
         IN [w EXCEPT !.chore = c2, !.ret = w.chore.state]

\* A variant that forgets due_since on the way to due: C3 does not survive it.
SetStateNoDueSince(w, new_state, forced, now) ==
    IF new_state = w.chore.state THEN [w EXCEPT !.ret = "none"]
    ELSE LET c1 == [w.chore EXCEPT !.state = new_state, !.state_entered_at = now,
                                   !.forced = forced]
             c2 == CASE new_state = "completed" ->
                            RecordCompletion([c1 EXCEPT !.last_completed = Some(now)], forced, now)
                     [] new_state = "inactive" -> [c1 EXCEPT !.due_since = None]
                     [] OTHER -> c1
         IN [w EXCEPT !.chore = c2, !.ret = w.chore.state]

SetState(w, new_state, forced, now) ==
    IF new_state = w.chore.state THEN [w EXCEPT !.ret = "none"]
    ELSE LET c1 == [w.chore EXCEPT !.state = new_state, !.state_entered_at = now,
                                   !.forced = forced]
             c2 == CASE new_state = "due" -> [c1 EXCEPT !.due_since = Some(now)]
                     [] new_state = "completed" ->
                            RecordCompletion([c1 EXCEPT !.last_completed = Some(now)], forced, now)
                     [] new_state = "inactive" -> [c1 EXCEPT !.due_since = None]
                     [] OTHER -> c1
         IN [w EXCEPT !.chore = c2, !.ret = w.chore.state]

EvaluateInactive(w, now) ==
    IF w.trigger.state = "done"
    THEN SetState([w EXCEPT !.completion = CompletionEnable(@)], "due", FALSE, now)
    ELSE IF w.trigger.state = "active" THEN SetState(w, "pending", FALSE, now)
    ELSE [w EXCEPT !.ret = "none"]

\* A variant without the way back to inactive: C1 does not survive it.
EvaluatePendingNoReturn(w, now) ==
    IF w.trigger.state = "done"
    THEN SetState([w EXCEPT !.completion = CompletionEnable(@)], "due", FALSE, now)
    ELSE [w EXCEPT !.ret = "none"]

EvaluatePending(w, now) ==
    IF w.trigger.state = "done"
    THEN SetState([w EXCEPT !.completion = CompletionEnable(@)], "due", FALSE, now)
    ELSE IF w.trigger.state = "idle" THEN SetState(w, "inactive", FALSE, now)
    ELSE [w EXCEPT !.ret = "none"]

EvaluateDue(w, now) ==
    IF w.completion.state = "done" THEN SetState(w, "completed", FALSE, now)
    ELSE IF w.completion.state = "active" THEN SetState(w, "started", FALSE, now)
    ELSE [w EXCEPT !.ret = "none"]

EvaluateStarted(w, now) ==
    IF w.completion.state = "done" THEN SetState(w, "completed", FALSE, now)
    ELSE [w EXCEPT !.ret = "none"]

\* A variant that goes on to the inactive check after a reset: C2 does not
\* survive it.
EvaluateCompletedCascade(w, now) ==
    IF ShouldReset(w.chore.state_entered_at, now)
    THEN EvaluateInactive(
             SetState([w EXCEPT !.trigger = TriggerReset(@, now),
                                !.completion = CompletionReset(@, now)],
                      "inactive", FALSE, now), now)
    ELSE [w EXCEPT !.ret = "none"]

\* The slip of a reset that leaves the completion as it was.
EvaluateCompletedKeepsCompletion(w, now) ==
    IF ShouldReset(w.chore.state_entered_at, now)
    THEN SetState([w EXCEPT !.trigger = TriggerReset(@, now)],
                  "inactive", FALSE, now)
    ELSE [w EXCEPT !.ret = "none"]

EvaluateCompleted(w, now) ==
    IF ShouldReset(w.chore.state_entered_at, now)
    THEN SetState([w EXCEPT !.trigger = TriggerReset(@, now),
                            !.completion = CompletionReset(@, now)],
                  "inactive", FALSE, now)
    ELSE [w EXCEPT !.ret = "none"]

\* A variant that dispatches before the trigger's own evaluate(): C8 does
\* not survive it.
EvaluateDispatchFirst(w, h, now) ==
    LET w1 == CASE w.chore.state = "inactive" -> EvaluateInactive(w, now)
                [] w.chore.state = "pending" -> EvaluatePending(w, now)
                [] w.chore.state = "due" -> EvaluateDue(w, now)
                [] w.chore.state = "started" -> EvaluateStarted(w, now)
                [] w.chore.state = "completed" -> EvaluateCompleted(w, now)
                [] OTHER -> [w EXCEPT !.ret = "none"]
    IN [w1 EXCEPT !.trigger = TriggerEvaluate(@, h, now)]

Evaluate(w, h, now) ==
    LET w1 == [w EXCEPT !.trigger = TriggerEvaluate(@, h, now)] IN
    CASE w1.chore.state = "inactive" -> EvaluateInactive(w1, now)
      [] w1.chore.state = "pending" -> EvaluatePending(w1, now)
      [] w1.chore.state = "due" -> EvaluateDue(w1, now)
      [] w1.chore.state = "started" -> EvaluateStarted(w1, now)
      [] w1.chore.state = "completed" -> EvaluateCompleted(w1, now)
      [] OTHER -> [w1 EXCEPT !.ret = "none"]

\* A variant that always reports the state it found: C5 does not survive it.
ForceDueReportsOld(w, now) ==
    [SetState([w EXCEPT !.trigger = TriggerSetState(@, "done", now),
                        !.completion = CompletionEnable(CompletionReset(@, now))],
              "due", TRUE, now)
        EXCEPT !.ret = w.chore.state]

ForceDue(w, now) ==
    SetState([w EXCEPT !.trigger = TriggerSetState(@, "done", now),
                       !.completion = CompletionEnable(CompletionReset(@, now))],
             "due", TRUE, now)

\* The slip of a forced reset that does not mark the chore forced.
ForceInactiveUnmarked(w, now) ==
    SetState([w EXCEPT !.trigger = TriggerReset(@, now),
                       !.completion = CompletionReset(@, now)],
             "inactive", FALSE, now)

ForceInactive(w, now) ==
    SetState([w EXCEPT !.trigger = TriggerReset(@, now),
                       !.completion = CompletionReset(@, now)],
             "inactive", TRUE, now)

\* A variant that leaves the completion enabled: C7 does not survive it.
ForceCompleteStaysEnabled(w, now) ==
    SetState([w EXCEPT !.completion = CompletionSetState(@, "done", now)],
             "completed", TRUE, now)

ForceComplete(w, now) ==
    SetState([w EXCEPT !.completion = CompletionDisable(CompletionSetState(@, "done", now))],
             "completed", TRUE, now)

----------------------------------------------------------------------------
\* Persistence: snapshot_state() and restore_state().  A snapshot is a
\* dictionary; restore reads each key with a default when it is missing.

Get(d, k, default) == IF k \in DOMAIN d THEN d[k] ELSE default

IsoOrNone(o) == IF IsNone(o) THEN None ELSE IsoFormat(Val(o))

TriggerSnapshotInternal(t) ==
    CASE cfg.trigger.type = "power_cycle" ->
            [machine_running |-> t.machine_running,
             power_dropped_at |-> IsoOrNone(t.power_dropped_at)]
      [] cfg.trigger.type \in {"daily", "weekly"} ->
            [time_fired_today |-> t.time_fired_today]
      [] cfg.trigger.type = "duration" ->
            [state_since |-> IsoOrNone(t.state_since),
             duration_elapsed |-> t.duration_elapsed]
      [] OTHER -> <<>>

TriggerSnapshot(t) ==
    [state |-> t.state] @@ TriggerSnapshotInternal(t)

ParseOrNone(s) == IF s = None THEN None ELSE ParseDatetime(s)

TriggerRestoreInternal(t, data) ==
    CASE cfg.trigger.type = "power_cycle" ->
            [t EXCEPT !.machine_running = Get(data, "machine_running", FALSE),
                      !.power_dropped_at = ParseOrNone(Get(data, "power_dropped_at", None))]
      [] cfg.trigger.type \in {"daily", "weekly"} ->
            [t EXCEPT !.time_fired_today = Get(data, "time_fired_today", FALSE)]
      [] cfg.trigger.type = "duration" ->
            [t EXCEPT !.state_since = ParseOrNone(Get(data, "state_since", None)),
                      !.duration_elapsed = Get(data, "duration_elapsed", FALSE)]
      [] OTHER -> t

\* parse_datetime(data[key]) or utcnow(), when the key is there
RestoredEnteredAt(old, data, now) ==
    IF "state_entered_at" \in DOMAIN data
    THEN IF IsNone(ParseOrNone(data.state_entered_at)) THEN now
         ELSE Val(ParseOrNone(data.state_entered_at))
    ELSE old

TriggerRestore(t, data, now) ==
    TriggerRestoreInternal(
        [t EXCEPT !.state = Get(data, "state", @)], data)

CompletionSnapshot(c) ==
    [state |-> c.state, steps_done |-> c.steps_done, enabled |-> c.enabled]

\* A variant that takes a completion for enabled unless told otherwise: C13
\* does not survive it.
CompletionRestoreEnabled(c, data, now) ==
    [c EXCEPT !.state = Get(data, "state", @),
              !.steps_done = Get(data, "steps_done", 0),
              !.enabled = Get(data, "enabled", TRUE)]

CompletionRestore(c, data, now) ==
    [c EXCEPT !.state = Get(data, "state", @),
              !.steps_done = Get(data, "steps_done", 0),
              !.enabled = Get(data, "enabled", FALSE)]

\* A variant that leaves forced out of the snapshot: C12 does not survive it.
SnapshotStateNoForced(w) ==
    [chore_state |-> w.chore.state,
     state_entered_at |-> IsoFormat(w.chore.state_entered_at),
     due_since |-> IsoOrNone(w.chore.due_since),
     last_completed |-> IsoOrNone(w.chore.last_completed),
     trigger |-> TriggerSnapshot(w.trigger),
     completion |-> CompletionSnapshot(w.completion),
     completion_history |-> LastN(w.chore.completion_history, HistoryCap)]

SnapshotState(w) ==
    [chore_state |-> w.chore.state,
     state_entered_at |-> IsoFormat(w.chore.state_entered_at),
     due_since |-> IsoOrNone(w.chore.due_since),
     last_completed |-> IsoOrNone(w.chore.last_completed),
     forced |-> w.chore.forced,
     trigger |-> TriggerSnapshot(w.trigger),
     completion |-> CompletionSnapshot(w.completion),
     completion_history |-> LastN(w.chore.completion_history, HistoryCap)]

\* A stored value that is no dictionary (a string, a number, a list).
NotADict == [not_a_dict |-> TRUE]
IsDict(data) == "not_a_dict" \notin DOMAIN data

\* ChoreState(data["chore_state"]), SubState(data["state"]): a ValueError
\* when the key is there and its value is no member of the enumeration.
RaisesValueError(data, k, enum) == k \in DOMAIN data /\ data[k] \notin enum

\* A dictionary restore_state reads without a ValueError: what it holds
\* for the state of the chore, of the trigger and of the completion is a
\* member of the enumeration.
Intact(data) ==
    /\ IsDict(data)
    /\ ~RaisesValueError(data, "chore_state", ChoreState)
    /\ "trigger" \in DOMAIN data => ~RaisesValueError(data.trigger, "state", SubState)
    /\ "completion" \in DOMAIN data => ~RaisesValueError(data.completion, "state", SubState)

\* Chore.restore_state, statement by statement: an exception leaves what
\* the statements before it have assigned, and the result is "raised".
RestoreState(w, data, now) ==
    IF ~IsDict(data) \/ RaisesValueError(data, "chore_state", ChoreState)
    THEN [w EXCEPT !.ret = "raised"]
    ELSE
    LET ch == [w.chore EXCEPT
                !.state = Get(data, "chore_state", @),
                !.state_entered_at = RestoredEnteredAt(@, data, now),
                !.due_since = IF Get(data, "due_since", None) # None
                              THEN ParseDatetime(data.due_since) ELSE @,
                !.last_completed = IF Get(data, "last_completed", None) # None
                                   THEN ParseDatetime(data.last_completed) ELSE @,
                !.forced = Get(data, "forced", FALSE)]
        t == IF "trigger" \in DOMAIN data
             THEN TriggerRestore(w.trigger, data.trigger, now) ELSE w.trigger
        c == IF "completion" \in DOMAIN data
             THEN CompletionRestore(w.completion, data.completion, now) ELSE w.completion
    IN IF "trigger" \in DOMAIN data /\ RaisesValueError(data.trigger, "state", SubState)
       THEN [w EXCEPT !.chore = ch, !.ret = "raised"]
       ELSE IF "completion" \in DOMAIN data
                /\ RaisesValueError(data.completion, "state", SubState)
       THEN [w EXCEPT !.chore = ch, !.trigger = t, !.ret = "raised"]
       ELSE [w EXCEPT
                !.chore = [ch EXCEPT
                    !.completion_history = Get(data, "completion_history", <<>>)],
                !.trigger = t,
                !.completion = c]

\* ChoreStore.async_load: a stored file that is no dictionary is taken for
\* an empty store.
CorruptFile == Some([not_a_dict_file |-> TRUE])
AsyncLoad(stored) == IF stored = CorruptFile THEN None ELSE stored

\* ChoresCoordinator.register_chore: the chore restores what the store
\* holds for it (if stored: an empty dictionary counts as nothing).
RegisterChore(w, stored, now) ==
    IF IsNone(stored) \/ DOMAIN Val(stored) = {} THEN w
    ELSE RestoreState(w, Val(stored), now)

\* Chore.__init__: create_trigger and create_completion raise a ValueError
\* for a type their factory does not have; create_reset takes any type it
\* does not know for no reset configuration at all.
Constructs(config) ==
    /\ config.trigger.type \in TriggerType
    /\ config.completion.type \in CompletionType

\* The chores of the YAML configuration: the one the model follows, and a
\* second one after it.
OtherConfig == ChoreConfig(TriggerConfig("daily", FALSE, 1, <<>>, 0), "manual", NoReset)
YamlConfig == <<[id |-> ChoreId, config |-> cfg], [id |-> OtherId, config |-> OtherConfig]>>

\* The loop of async_setup_entry: each chore is constructed and registered,
\* one that raises is logged and skipped.
CreateChores(chores_config) ==
    {chores_config[i].id : i \in {j \in 1..Len(chores_config) :
                                     Constructs(chores_config[j].config)}}

----------------------------------------------------------------------------
\* The coordinator (coordinator.py), the store (store.py) and the world
\* around them.

Here == World(chore, trigger, completion)

\* The record of an operation: which it was, whether it called evaluate(),
\* what it returned, and, for a poll, what it came straight after: an
\* evaluate() that reported a change ("change") or none ("quiet"), or
\* anything else ("fresh").
Did(op, evaluated, ret) ==
    [op |-> op, evaluated |-> evaluated, ret |-> ret,
     after |-> IF op = "poll" /\ last.evaluated
               THEN IF last.ret = "none" THEN "quiet" ELSE "change"
               ELSE "fresh",
     chore_id |-> ChoreId, events |-> <<>>]

\* STATE_EVENT_MAP: the event type of each state entered.
STATE_EVENT_MAP ==
    [pending |-> "chores.chore_pending", due |-> "chores.chore_due",
     started |-> "chores.chore_started", completed |-> "chores.chore_completed",
     inactive |-> "chores.chore_reset"]

\* A variant that names the event for the state left: C15 does not survive it.
FireEventForOld(old_state, new_state) ==
    [event_type |-> STATE_EVENT_MAP[old_state],
     event_data |-> [chore_id |-> ChoreId, chore_name |-> ChoreName,
                     previous_state |-> old_state, new_state |-> new_state]]

\* ChoresCoordinator._fire_event: the event put on the bus.
FireEvent(old_state, new_state) ==
    [event_type |-> STATE_EVENT_MAP[new_state],
     event_data |-> [chore_id |-> ChoreId, chore_name |-> ChoreName,
                     previous_state |-> old_state, new_state |-> new_state]]

\* What a caller does with the result of evaluate() or of a force action:
\* a change is put on the bus (_fire_event) and persisted to the store
\* (_persist_chore), in memory.
Settle(chore_id, op, evaluated, w) ==
    /\ w.chore.state = "completed" /\ chore.state # "completed" => completions < MaxCompletions
    /\ completions' = IF w.chore.state = "completed" /\ chore.state # "completed"
                      THEN completions + 1 ELSE completions
    /\ chore' = w.chore
    /\ trigger' = w.trigger
    /\ completion' = w.completion
    /\ store' = IF w.ret # "none" THEN Some(SnapshotState(w)) ELSE store
    /\ saved' = IF op = "poll" THEN TRUE ELSE saved /\ w.ret = "none"
    /\ last' = [Did(op, evaluated, w.ret) EXCEPT
                    !.chore_id = chore_id,
                    !.events = IF w.ret # "none"
                               THEN <<FireEvent(w.ret, w.chore.state)>> ELSE <<>>]

\* A listener has run: when it called on_state_change(), the chore is
\* evaluated (_on_trigger_change, _on_completion_change) and a change goes
\* to the coordinator (_on_chore_state_change).
AfterListener(op, t, c, cb, h, now) ==
    IF cb THEN Settle(ChoreId, op, TRUE, Evaluate(World(chore, t, c), h, now))
    ELSE Settle(ChoreId, op, FALSE, World(chore, t, c))

\* Nothing of the process runs: the world moves on unobserved.
Unobserved(op) ==
    /\ UNCHANGED <<chore, trigger, completion, store, saved, completions>>
    /\ last' = Did(op, FALSE, "none")

\* ChoresCoordinator._async_update_data: the poll, every update interval,
\* which ends by saving the store to disk.
Poll ==
    /\ up
    /\ Settle(ChoreId, "poll", TRUE, Evaluate(Here, hass, utcnow))
    /\ UNCHANGED <<cfg, utcnow, hass, up, chores, restarts>>

\* The times of day at which a time listener is registered.
ListenerTimes ==
    CASE cfg.trigger.type = "daily" -> {cfg.trigger.time}
      [] cfg.trigger.type = "weekly" ->
            {cfg.trigger.schedule[i][2] : i \in 1..Len(cfg.trigger.schedule)}
      [] OTHER -> {}

\* Time passes, no time listener being due (or the process being down).
Tick ==
    /\ utcnow < MaxTime
    /\ utcnow' = utcnow + 1
    /\ ~up \/ (utcnow' % DayLen) \notin ListenerTimes
    /\ Unobserved("event")
    /\ UNCHANGED <<cfg, hass, up, chores, restarts>>

\* Time reaches a time of day that async_track_time_change listens for.
TimeChange ==
    /\ up
    /\ utcnow < MaxTime
    /\ utcnow' = utcnow + 1
    /\ (utcnow' % DayLen) \in ListenerTimes
    /\ LET days == {cfg.trigger.schedule[i][1] : i \in
                        {j \in 1..Len(cfg.trigger.schedule) :
                            cfg.trigger.schedule[j][2] = utcnow' % DayLen}}
           heard == IF cfg.trigger.type = "daily"
                    THEN DailyTimeListener(trigger, hass, utcnow')
                    ELSE WeeklyTimeListener(trigger, hass, utcnow', days)
       IN AfterListener("event", heard.t, completion, heard.cb, hass, utcnow')
    /\ UNCHANGED <<cfg, hass, up, chores, restarts>>

\* The power sensor reports a value.
PowerChange(v) ==
    /\ cfg.trigger.type = "power_cycle"
    /\ hass' = [hass EXCEPT !.power = v]
    /\ IF up
       THEN LET heard == PowerListener(trigger, hass', utcnow)
            IN AfterListener("event", heard.t, completion, heard.cb, hass', utcnow)
       ELSE Unobserved("event")
    /\ UNCHANGED <<cfg, utcnow, up, chores, restarts>>

\* The entity a state_change or duration trigger watches reports a value
\* (the same value again is an attribute-only change).
EntityChange(v) ==
    /\ cfg.trigger.type \in {"state_change", "duration"}
    /\ hass' = [hass EXCEPT !.entity = v]
    /\ IF up
       THEN LET heard == IF cfg.trigger.type = "state_change"
                         THEN StateChangeListener(trigger, hass.entity, v, utcnow)
                         ELSE DurationListener(trigger, hass.entity, v, utcnow)
            IN AfterListener("event", heard.t, completion, heard.cb, hass', utcnow)
       ELSE Unobserved("event")
    /\ UNCHANGED <<cfg, utcnow, up, chores, restarts>>

\* The gate entity reports a value.
GateChange(v) ==
    /\ cfg.trigger.gate
    /\ hass' = [hass EXCEPT !.gate = v]
    /\ IF up
       THEN LET heard == IF cfg.trigger.type = "duration"
                         THEN DurationGateListener(trigger, hass.gate, v, utcnow)
                         ELSE TimeGateListener(trigger, hass.gate, v, utcnow)
            IN AfterListener("event", heard.t, completion, heard.cb, hass', utcnow)
       ELSE Unobserved("event")
    /\ UNCHANGED <<cfg, utcnow, up, chores, restarts>>

\* The entity the completion watches reports a value.
CompletionChange(v) ==
    /\ cfg.completion.type # "manual"
    /\ hass' = [hass EXCEPT !.completion = v]
    /\ IF up
       THEN LET heard == CompletionListener(completion, v, utcnow)
            IN AfterListener("event", trigger, heard.t, heard.cb, hass', utcnow)
       ELSE Unobserved("event")
    /\ UNCHANGED <<cfg, utcnow, up, chores, restarts>>

\* A variant that finds a chore under any id: C17 does not survive it.
ChoresGetAny(chore_id) == TRUE

\* self._chores.get(chore_id): whether a chore of this id is registered.
ChoresGet(chore_id) == chore_id \in chores

\* _LOGGER.warning("Chore not found: %s", chore_id), and nothing else.
NotFound(chore_id) ==
    /\ UNCHANGED <<chore, trigger, completion, store, saved, completions>>
    /\ last' = [Did("not_found", FALSE, "none") EXCEPT !.chore_id = chore_id]

\* ChoresCoordinator.async_force_due
AsyncForceDue(chore_id) ==
    /\ up
    /\ IF ChoresGet(chore_id)
       THEN Settle(chore_id, "force_due", FALSE, ForceDue(Here, utcnow))
       ELSE NotFound(chore_id)
    /\ UNCHANGED <<cfg, utcnow, hass, up, chores, restarts>>

\* ChoresCoordinator.async_force_inactive
AsyncForceInactive(chore_id) ==
    /\ up
    /\ IF ChoresGet(chore_id)
       THEN Settle(chore_id, "force_inactive", FALSE, ForceInactive(Here, utcnow))
       ELSE NotFound(chore_id)
    /\ UNCHANGED <<cfg, utcnow, hass, up, chores, restarts>>

\* ChoresCoordinator.async_force_complete
AsyncForceComplete(chore_id) ==
    /\ up
    /\ IF ChoresGet(chore_id)
       THEN Settle(chore_id, "force_complete", FALSE, ForceComplete(Here, utcnow))
       ELSE NotFound(chore_id)
    /\ UNCHANGED <<cfg, utcnow, hass, up, chores, restarts>>

\* The process stops, at a moment when the store is on disk as it is in
\* memory; what else the process held in memory is gone.
Stop ==
    /\ up
    /\ saved
    /\ restarts < MaxRestarts
    /\ up' = FALSE
    /\ chores' = {}
    /\ chore' = [NewChore EXCEPT !.state_entered_at = 0]
    /\ trigger' = NewTrigger
    /\ completion' = NewCompletion
    /\ last' = Did("stop", FALSE, "none")
    /\ UNCHANGED <<cfg, utcnow, hass, store, saved, restarts, completions>>

\* async_setup_entry: the store is loaded, the chore is constructed and
\* register_chore restores what the store holds for it.
SetupEntry ==
    /\ ~up
    /\ up' = TRUE
    /\ restarts' = restarts + 1
    /\ store' = AsyncLoad(store)
    /\ saved' = (saved /\ store' = store)
    /\ chores' = CreateChores(YamlConfig)
    /\ LET w == World(NewChore, NewTrigger, NewCompletion)
           r == IF ChoreId \in chores' THEN RegisterChore(w, store', utcnow) ELSE w
       IN /\ chore' = r.chore
          /\ trigger' = r.trigger
          /\ completion' = r.completion
          /\ last' = Did("setup", FALSE, r.ret)
    /\ UNCHANGED <<cfg, utcnow, hass, completions>>

Init ==
    /\ cfg \in Configs
    /\ utcnow = 0
    /\ hass = [power |-> "5", entity |-> "off", gate |-> "off", completion |-> "off"]
    /\ up = TRUE
    /\ chores = {ChoreId, OtherId}
    /\ chore = NewChore
    /\ trigger = NewTrigger
    /\ completion = NewCompletion
    /\ store = None
    /\ saved = TRUE
    /\ restarts = 0
    /\ completions = 0
    /\ last = [op |-> "setup", evaluated |-> FALSE, ret |-> "none", after |-> "fresh",
               chore_id |-> ChoreId, events |-> <<>>]

\* What happens while the process runs, or to the world around it.
Operate ==
    \/ Poll
    \/ Tick
    \/ TimeChange
    \/ \E v \in PowerValues : PowerChange(v)
    \/ \E v \in EntityValues : EntityChange(v)
    \/ \E v \in EntityValues : GateChange(v)
    \/ \E v \in EntityValues : CompletionChange(v)
    \/ AsyncForceDue(ChoreId)
    \/ AsyncForceInactive(ChoreId)
    \/ AsyncForceComplete(ChoreId)

\* The ids a command can name: the chore's own, and one no chore has.
CommandIds == {ChoreId, NoSuchId}

\* A command names an id no chore has.
Misnamed ==
    \/ AsyncForceDue(NoSuchId)
    \/ AsyncForceInactive(NoSuchId)
    \/ AsyncForceComplete(NoSuchId)

Next ==
    \/ Operate
    \/ Misnamed
    \/ Stop
    \/ SetupEntry

\* Every operation, restarts included.
Spec == Init /\ [][Next]_vars

\* The operations of one run of the process.
SpecOperate == Init /\ [][Operate]_vars

----------------------------------------------------------------------------
\* A chore with a long past: it has been completed HistoryCap - 1 or
\* HistoryCap times, once every tick up to the present, and has just been
\* reset.

PastRecord(i, n) == [completed_at |-> IsoFormat(i - n), completed_by |-> "sensor"]

PastHistory(n) == [i \in 1..n |-> PastRecord(i, n)]

HistConfig ==
    ChoreConfig(TriggerConfig("daily", FALSE, 1, <<>>, 0), "contact_cycle", DelayResetConfig(0))

InitHist ==
    /\ cfg = HistConfig
    /\ utcnow = 0
    /\ hass = [power |-> "5", entity |-> "off", gate |-> "off", completion |-> "off"]
    /\ up = TRUE
    /\ chores = {ChoreId, OtherId}
    /\ \E n \in {HistoryCap - 1, HistoryCap} :
          chore = [NewChore EXCEPT !.last_completed = Some(-1),
                                   !.completion_history = PastHistory(n)]
    /\ trigger = NewTrigger
    /\ completion = NewCompletion
    /\ store = Some(SnapshotState(Here))
    /\ saved = TRUE
    /\ restarts = 0
    /\ completions = 0
    /\ last = [op |-> "poll", evaluated |-> TRUE, ret |-> "completed", after |-> "fresh",
               chore_id |-> ChoreId, events |-> <<FireEvent("completed", "inactive")>>]

NextHist ==
    \/ Poll
    \/ Tick
    \/ TimeChange
    \/ \E v \in EntityValues : CompletionChange(v)
    \/ AsyncForceDue(ChoreId)
    \/ AsyncForceInactive(ChoreId)
    \/ AsyncForceComplete(ChoreId)
    \/ Stop
    \/ SetupEntry

SpecHist == InitHist /\ [][NextHist]_vars

----------------------------------------------------------------------------
\* Commands: a daily chore with a sensor completion, the poll, the clock,
\* the completion's entity, and the three force commands under either id.

CommandConfig ==
    ChoreConfig(TriggerConfig("daily", FALSE, 1, <<>>, 0), "sensor_state", DailyResetConfig(0))

InitCommands == Init /\ cfg = CommandConfig

NextCommands ==
    \/ Poll
    \/ Tick
    \/ TimeChange
    \/ \E v \in EntityValues : CompletionChange(v)
    \/ \E id \in CommandIds : AsyncForceDue(id)
    \/ \E id \in CommandIds : AsyncForceInactive(id)
    \/ \E id \in CommandIds : AsyncForceComplete(id)

SpecCommands == InitCommands /\ [][NextCommands]_vars

----------------------------------------------------------------------------
\* A weekly chore that was completed by command in the last days of the
\* week before, and has been completed since.  Its schedule has an entry
\* on Monday and one on Tuesday of this week, or two on Monday.

WeekConfig ==
    ChoreConfig(TriggerConfig("weekly", FALSE, 0, <<<<0, 1>>, <<1, 1>>>>, 0), "contact", NoReset)

\* A weekly chore with two entries on Monday, the later one listed first.
TwiceADayConfig ==
    ChoreConfig(TriggerConfig("weekly", FALSE, 0, <<<<0, 1>>, <<0, 0>>>>, 0), "contact", NoReset)

WeekConfigs == {WeekConfig, TwiceADayConfig}

\* The moments of last week the chore may have been completed at.
PastWeek == (0 - MaxTime)..(0 - 1)

InitWeek ==
    /\ cfg \in WeekConfigs
    /\ utcnow = 0
    /\ hass = [power |-> "5", entity |-> "off", gate |-> "off", completion |-> "off"]
    /\ up = TRUE
    /\ chores = {ChoreId, OtherId}
    /\ \E completed_at \in PastWeek :
          LET w == ForceComplete(World(NewChore, NewTrigger, NewCompletion), completed_at)
          IN /\ chore = w.chore
             /\ trigger = w.trigger
             /\ completion = w.completion
             /\ store = Some(SnapshotState(w))
    /\ saved = TRUE
    /\ restarts = 0
    /\ completions = 0
    /\ last = [op |-> "force_complete", evaluated |-> FALSE, ret |-> "inactive",
               after |-> "fresh", chore_id |-> ChoreId,
               events |-> <<FireEvent("inactive", "completed")>>]

NextWeek ==
    \/ Poll
    \/ Tick
    \/ TimeChange
    \/ \E v \in EntityValues : CompletionChange(v)
    \/ AsyncForceComplete(ChoreId)

SpecWeek == InitWeek /\ [][NextWeek]_vars

----------------------------------------------------------------------------
\* Event-driven chores with no reset configured: one of each trigger type.

EventConfigs ==
    { ChoreConfig(TriggerConfig("power_cycle", FALSE, 0, <<>>, 1), "contact", NoReset),
      ChoreConfig(TriggerConfig("state_change", FALSE, 0, <<>>, 0), "manual", NoReset),
      ChoreConfig(TriggerConfig("duration", FALSE, 0, <<>>, 1), "manual", NoReset) }

InitEvent ==
    /\ cfg \in EventConfigs
    /\ utcnow = 0
    /\ hass = [power |-> "5", entity |-> "off", gate |-> "off", completion |-> "off"]
    /\ up = TRUE
    /\ chores = {ChoreId, OtherId}
    /\ chore = NewChore
    /\ trigger = NewTrigger
    /\ completion = NewCompletion
    /\ store = None
    /\ saved = TRUE
    /\ restarts = 0
    /\ completions = 0
    /\ last = [op |-> "setup", evaluated |-> FALSE, ret |-> "none", after |-> "fresh",
               chore_id |-> ChoreId, events |-> <<>>]

NextEvent ==
    \/ Poll
    \/ Tick
    \/ \E v \in PowerValues : PowerChange(v)
    \/ \E v \in EntityValues : EntityChange(v)
    \/ \E v \in EntityValues : CompletionChange(v)
    \/ AsyncForceComplete(ChoreId)

SpecEvent == InitEvent /\ [][NextEvent]_vars

----------------------------------------------------------------------------
\* Setting up: the process is down, and what it finds when it starts is a
\* configuration that may name a type no factory has, and a store that may
\* hold a snapshot with keys missing or with a value gone bad.

\* Configurations whose trigger, completion or reset type is unknown, or
\* names a detector of the other stage.
BadConfigs ==
    { ChoreConfig(TriggerConfig("bogus", FALSE, 0, <<>>, 0), "manual", NoReset),
      ChoreConfig(TriggerConfig("manual", FALSE, 0, <<>>, 0), "manual", NoReset),
      ChoreConfig(TriggerConfig("daily", FALSE, 1, <<>>, 0), "bogus", NoReset),
      ChoreConfig(TriggerConfig("daily", FALSE, 1, <<>>, 0), "daily", NoReset),
      ChoreConfig(TriggerConfig("daily", FALSE, 1, <<>>, 0), "weekly", NoReset),
      ChoreConfig(TriggerConfig("daily", FALSE, 1, <<>>, 0), "manual",
                  [type |-> "bogus", minutes |-> 0, time |-> 0]) }

\* What an earlier run, a day or a week ago, went through: the trigger's
\* listener heard the entity it watches and the chore was evaluated; the
\* completion's listener then heard its entity and the chore was evaluated
\* again; or the chore was forced due, then completed, then reset.
PastHass == [power |-> "15", entity |-> "on", gate |-> "on", completion |-> "on"]

PastTrigger ==
    CASE cfg.trigger.type = "power_cycle" -> PowerListener(NewTrigger, PastHass, -1).t
      [] cfg.trigger.type = "state_change" -> StateChangeListener(NewTrigger, "off", "on", -1).t
      [] cfg.trigger.type = "daily" -> DailyTimeListener(NewTrigger, PastHass, -1).t
      [] cfg.trigger.type = "weekly" -> WeeklyTimeListener(NewTrigger, PastHass, -11, {1}).t
      [] cfg.trigger.type = "duration" -> DurationListener(NewTrigger, "off", "on", -1).t

PastWorlds ==
    LET new == World([NewChore EXCEPT !.state_entered_at = -1], NewTrigger, NewCompletion)
        triggered == Evaluate([new EXCEPT !.trigger = PastTrigger], PastHass, -1)
        v == IF cfg.completion.type = "presence_cycle" THEN "off" ELSE "on"
        stepped == Evaluate([triggered EXCEPT
                                !.completion = CompletionListener(@, v, -1).t],
                            PastHass, -1)
        due == ForceDue(new, -1)
        done == ForceComplete(due, -1)
        over == ForceInactive(done, -1)
    IN {triggered, stepped, due, done, over}

PastSnapshots == {SnapshotState(w) : w \in PastWorlds}

\* A dictionary with only the keys of K.
Restrict(d, K) == [k \in K |-> d[k]]

\* A snapshot with any subset of its keys missing, or of the keys of its
\* trigger, or of its completion.
PartialSnapshots ==
    UNION {   {Restrict(d, K) : K \in SUBSET DOMAIN d}
        \cup {[d EXCEPT !.trigger = Restrict(@, K)] : K \in SUBSET DOMAIN d.trigger}
        \cup {[d EXCEPT !.completion = Restrict(@, K)] : K \in SUBSET DOMAIN d.completion}
        : d \in PastSnapshots}

\* A snapshot that is no dictionary, or has a state that is none of the
\* enumeration: the chore's, the trigger's or the completion's.
CorruptSnapshots ==
    {NotADict} \cup
    UNION {{[d EXCEPT !.chore_state = "bogus"],
            [d EXCEPT !.trigger.state = "bogus"],
            [d EXCEPT !.completion.state = "bogus"]} : d \in PastSnapshots}

\* A daily chore whose completion is a sensor_threshold: done when the
\* sensor reads below the threshold.
ThresholdConfig ==
    [ChoreConfig(TriggerConfig("daily", FALSE, 1, <<>>, 0), "sensor_threshold", NoReset)
        EXCEPT !.completion = [type |-> "sensor_threshold", state |-> "on",
                               threshold |-> 10, operator |-> "below"]]

\* SensorThresholdDetector._check_threshold on the sensor's present value
\* (operator "below").
CheckThreshold(h) ==
    /\ ~IsNone(ParseFloat(h.completion))
    /\ Val(ParseFloat(h.completion)) < cfg.completion.threshold

InitSetup ==
    /\ cfg \in Configs \cup BadConfigs \cup {ThresholdConfig}
    /\ utcnow = 0
    /\ hass = [power |-> "5", entity |-> "off", gate |-> "off",
               completion |-> IF cfg = ThresholdConfig THEN "5" ELSE "off"]
    /\ up = FALSE
    /\ chores = {}
    /\ chore = NewChore
    /\ trigger = NewTrigger
    /\ completion = NewCompletion
    /\ IF cfg \in Configs
       THEN store \in {None, CorruptFile}
                      \cup {Some(d) : d \in PartialSnapshots \cup CorruptSnapshots}
       ELSE store = None
    /\ saved = TRUE
    /\ restarts = 0
    /\ completions = 0
    /\ last = [op |-> "stop", evaluated |-> FALSE, ret |-> "none", after |-> "fresh",
               chore_id |-> ChoreId, events |-> <<>>]

NextSetup ==
    \/ Tick
    \/ SetupEntry

SpecSetup == InitSetup /\ [][NextSetup]_vars

----------------------------------------------------------------------------
\* Resuming: the process is down and the store holds, for the chore, a
\* snapshot an earlier run wrote, whole or with the chore's own state
\* missing; the process starts and goes on running.

ResumeConfigs == {CommandConfig, HistConfig}

\* A genuine snapshot, whole or without its chore_state key.
ResumeSnapshots ==
    PastSnapshots \cup {Restrict(d, DOMAIN d \ {"chore_state"}) : d \in PastSnapshots}

InitResume ==
    /\ cfg \in ResumeConfigs
    /\ utcnow = 0
    /\ hass = [power |-> "5", entity |-> "off", gate |-> "off", completion |-> "off"]
    /\ up = FALSE
    /\ chores = {}
    /\ chore = NewChore
    /\ trigger = NewTrigger
    /\ completion = NewCompletion
    /\ store \in {Some(d) : d \in ResumeSnapshots}
    /\ saved = TRUE
    /\ restarts = 0
    /\ completions = 0
    /\ last = [op |-> "stop", evaluated |-> FALSE, ret |-> "none", after |-> "fresh",
               chore_id |-> ChoreId, events |-> <<>>]

NextResume ==
    \/ SetupEntry
    \/ Poll
    \/ Tick
    \/ TimeChange
    \/ \E v \in EntityValues : CompletionChange(v)

SpecResume == InitResume /\ [][NextResume]_vars

----------------------------------------------------------------------------
\* The first day of a new daily chore that no command makes due: its
\* trigger time is later that day, and every entry into due is made by
\* evaluate(), in the time listener's callback or in a poll.

InitDay == Init /\ cfg \in ResumeConfigs

NextDay ==
    \/ Poll
    \/ Tick
    \/ TimeChange
    \/ \E v \in EntityValues : CompletionChange(v)
    \/ AsyncForceInactive(ChoreId)
    \/ AsyncForceComplete(ChoreId)

SpecDay == InitDay /\ [][NextDay]_vars

----------------------------------------------------------------------------
\* A chore left to its reset policy: it is completed by its completion's
\* sensor or by command and reset by its policy or by command, with the
\* poll run again and again (the coordinator's update interval) and time
\* going on up to the horizon MaxTime.

NextLive ==
    \/ Poll
    \/ Tick
    \/ TimeChange
    \/ \E v \in EntityValues : CompletionChange(v)
    \/ AsyncForceInactive(ChoreId)
    \/ AsyncForceComplete(ChoreId)

SpecLive ==
    /\ Init
    /\ [][NextLive]_vars
    /\ WF_vars(Poll)
    /\ WF_vars(Tick \/ TimeChange)

----------------------------------------------------------------------------
\* Properties of evaluate().

\* C1: a step that calls evaluate() changes the chore state along one of the
\* eight rows of the transition table, takes the row whenever its condition
\* holds (the trigger's state after its own evaluate(), the completion's
\* state, the reset policy's answer), enables the completion on the way to
\* due, resets both stages on the way to inactive, and changes the state in
\* no other way.
C1_TransitionTable ==
    [][last'.evaluated =>
        /\ chore'.state =
            CASE chore.state = "inactive" /\ trigger'.state = "done" -> "due"
              [] chore.state = "inactive" /\ trigger'.state = "active" -> "pending"
              [] chore.state = "pending" /\ trigger'.state = "done" -> "due"
              [] chore.state = "pending" /\ trigger'.state = "idle" -> "inactive"
              [] chore.state = "due" /\ completion'.state = "done" -> "completed"
              [] chore.state = "due" /\ completion'.state = "active" -> "started"
              [] chore.state = "started" /\ completion'.state = "done" -> "completed"
              [] chore.state = "completed"
                   /\ ShouldReset(chore.state_entered_at, utcnow') -> "inactive"
              [] OTHER -> chore.state
        /\ chore'.state = "due" /\ chore.state # "due" => completion'.enabled
        /\ chore'.state = "inactive" /\ chore.state = "completed" =>
              trigger'.state = "idle" /\ completion'.state = "idle"]_vars

\* C1 witness: an evaluate() has just taken the row from pending back to
\* inactive.
C1_Witness == last.evaluated /\ last.ret = "pending" /\ chore.state = "inactive"

\* C2: a step that calls evaluate() makes at most one transition (the new
\* state is one row away from the old one), and returns the previous state
\* if and only if the state changed, "no change" otherwise.
C2_OneTransition ==
    [][last'.evaluated =>
        /\ (last'.ret = "none") <=> (chore'.state = chore.state)
        /\ last'.ret # "none" => last'.ret = chore.state
        /\ chore'.state # chore.state =>
              <<chore.state, chore'.state>> \in
                  { <<"inactive", "due">>, <<"inactive", "pending">>,
                    <<"pending", "due">>, <<"pending", "inactive">>,
                    <<"due", "completed">>, <<"due", "started">>,
                    <<"started", "completed">>, <<"completed", "inactive">> }]_vars

\* C2 witness: an evaluate() has reset a completed chore whose trigger time
\* has already passed, and returned "completed".
C2_Witness ==
    /\ last.evaluated /\ last.ret = "completed" /\ chore.state = "inactive"
    /\ cfg.trigger.type = "daily" /\ utcnow >= ReplaceTime(utcnow, cfg.trigger.time)

C4_GateHoldsAlways ==
    (cfg.trigger.gate /\ (trigger.time_fired_today \/ trigger.duration_elapsed)
        /\ ~IsGateMet(hass))
    => trigger.state = "active"

\* C4: when the condition of a gated trigger is reached while the gate is
\* unmet the trigger reports active, not done; and a gated trigger becomes
\* done only in a step in which the gate is met, or by force_due.
C4_GateHolds ==
    [][cfg.trigger.gate =>
        /\ ((trigger'.time_fired_today /\ ~trigger.time_fired_today)
              \/ (trigger'.duration_elapsed /\ ~trigger.duration_elapsed))
             /\ ~IsGateMet(hass')
           => trigger'.state = "active"
        /\ trigger'.state = "done" /\ trigger.state # "done"
           => IsGateMet(hass') \/ last'.op = "force_due"]_vars

\* C4 witness: the condition of a gated trigger has been reached, the gate
\* is unmet, and the trigger is held at active.
C4_Witness ==
    /\ cfg.trigger.gate /\ ~IsGateMet(hass)
    /\ trigger.time_fired_today \/ trigger.duration_elapsed
    /\ trigger.state = "active"

----------------------------------------------------------------------------
\* Properties of the force actions.

\* C5: a force action on a chore already in the action's target state
\* returns "no change"; so does a force_due that comes straight after a
\* force_due.
C5_ForceInTarget ==
    [][/\ last'.op = "force_due" /\ chore.state = "due" => last'.ret = "none"
       /\ last'.op = "force_inactive" /\ chore.state = "inactive" => last'.ret = "none"
       /\ last'.op = "force_complete" /\ chore.state = "completed" => last'.ret = "none"
       /\ last'.op = "force_due" /\ last.op = "force_due" => last'.ret = "none"]_vars

\* C5 witness: a force_due has returned "no change" on a chore that is due.
C5_Witness == last.op = "force_due" /\ last.ret = "none" /\ chore.state = "due"

\* C6 as stated: a force action that returns "no change" leaves the chore's
\* fields, the trigger (state and tracking) and the completion (state,
\* steps_done, enabled) as they were.
C6_ForceNoChange ==
    [][last'.op \in {"force_due", "force_inactive", "force_complete"}
         /\ last'.ret = "none"
       => UNCHANGED <<chore, trigger, completion>>]_vars

\* C7: force_due leaves the chore due, the trigger done and the completion
\* idle with no step done and enabled; force_complete leaves the chore
\* completed and the completion done and disabled; force_inactive leaves the
\* chore inactive and both stages idle; whatever the state before.
C7_ForceEffects ==
    [][/\ last'.op = "force_due" =>
            /\ chore'.state = "due" /\ trigger'.state = "done"
            /\ completion' = [state |-> "idle", steps_done |-> 0, enabled |-> TRUE]
       /\ last'.op = "force_complete" =>
            /\ chore'.state = "completed"
            /\ completion'.state = "done" /\ ~completion'.enabled
       /\ last'.op = "force_inactive" =>
            /\ chore'.state = "inactive" /\ trigger'.state = "idle"
            /\ completion'.state = "idle" /\ completion'.steps_done = 0]_vars

\* C7 witness: a force_due has made a completed chore due again.
C7_Witness ==
    /\ last.op = "force_due" /\ last.ret = "completed"
    /\ chore.state = "due" /\ completion.enabled

----------------------------------------------------------------------------
\* Idempotence of evaluate().

\* C8 as stated: a poll that comes straight after a step that called
\* evaluate(), nothing having changed in between, returns "no change" and
\* leaves the chore and both stages as they were.
C8_EvaluateAgain ==
    [][last.evaluated /\ last'.op = "poll"
       => last'.ret = "none" /\ UNCHANGED <<chore, trigger, completion>>]_vars

\* C8: a poll that comes straight after a step whose evaluate() returned
\* "no change", nothing having changed in between, returns "no change" and
\* leaves the chore and both stages as they were.
C8_EvaluateAgainQuiet ==
    [][last.evaluated /\ last.ret = "none" /\ last'.op = "poll"
       => last'.ret = "none" /\ UNCHANGED <<chore, trigger, completion>>]_vars

\* C8 witness: a poll has run straight after an evaluate() that returned
\* "no change", on a chore that is due.
C8_Witness == last.op = "poll" /\ last.after = "quiet" /\ chore.state = "due"

----------------------------------------------------------------------------
\* The completion history.

\* C9: the history never holds more than HistoryCap records, across
\* operations and restarts; and a record appended to a full history drops
\* the oldest one and keeps the others in order.
C9_HistoryCap ==
    /\ Len(chore.completion_history) <= HistoryCap
    /\ [][/\ Len(chore'.completion_history) <= HistoryCap
          /\ (up /\ up' /\ Len(chore.completion_history) = HistoryCap
                 /\ chore'.completion_history # chore.completion_history)
             => /\ Len(chore'.completion_history) = HistoryCap
                /\ SubSeq(chore'.completion_history, 1, HistoryCap - 1)
                     = Tail(chore.completion_history)]_vars

\* C9 witness: a chore with a full history has been completed: the history
\* is still full, its oldest record is gone and the new one is last.
C9_Witness ==
    /\ Len(chore.completion_history) = HistoryCap
    /\ chore.completion_history[1] = PastRecord(2, HistoryCap)
    /\ chore.completion_history[HistoryCap].completed_at = IsoFormat(utcnow)
    /\ chore.state = "completed"

\* C10: a step that takes the chore into completed appends exactly one
\* record, made at that instant, whose completed_by is "forced" for a force
\* action, otherwise "manual" for a manual completion, otherwise "sensor";
\* any other step leaves the history as it was.
C10_HistoryAppend ==
    [][IF chore'.state = "completed" /\ chore.state # "completed"
       THEN chore'.completion_history =
              LastN(Append(chore.completion_history,
                           [completed_at |-> IsoFormat(utcnow'),
                            completed_by |->
                               IF last'.op \in {"force_due", "force_inactive", "force_complete"}
                               THEN "forced"
                               ELSE IF cfg.completion.type = "manual" THEN "manual"
                               ELSE "sensor"]),
                    HistoryCap)
       ELSE chore'.completion_history = chore.completion_history]_vars

\* C10 witness: a sensor has completed the chore and the history holds the
\* one record of it.
C10_Witness ==
    /\ last.evaluated /\ chore.state = "completed"
    /\ Len(chore.completion_history) = 1
    /\ chore.completion_history[1].completed_by = "sensor"

----------------------------------------------------------------------------
\* Timestamps and persistence.

\* C11: a step that takes the chore into completed, by evaluate() or by
\* force_complete, sets last_completed to the time of that step; and a
\* completed chore always has a last_completed.
C11_LastCompleted ==
    /\ chore.state = "completed" => ~IsNone(chore.last_completed)
    /\ [][/\ chore'.state = "completed" /\ chore.state # "completed"
             => chore'.last_completed = Some(utcnow')
          /\ chore'.state = "completed" => ~IsNone(chore'.last_completed)]_vars

\* C11 witness: a chore completed for the first time, by evaluate(), at a
\* later time than it became due.
C11_Witness ==
    /\ chore.state = "completed" /\ last.evaluated /\ last.ret # "none"
    /\ chore.last_completed = Some(utcnow)
    /\ ~IsNone(chore.due_since) /\ Val(chore.due_since) < utcnow

\* C12: in every reachable state, the snapshot of the chore restored into
\* a newly constructed chore of the same configuration gives back the
\* state, due_since, last_completed, forced and the length of the history.
C12_RoundTrip ==
    LET r == RestoreState(World(NewChore, NewTrigger, NewCompletion),
                          SnapshotState(Here), utcnow).chore
    IN /\ r.state = chore.state
       /\ r.due_since = chore.due_since
       /\ r.last_completed = chore.last_completed
       /\ r.forced = chore.forced
       /\ Len(r.completion_history) = Len(chore.completion_history)

\* C12 witness: a chore completed by force after it was due, with a record
\* in its history: every field of the round trip differs from its default.
C12_Witness ==
    /\ chore.state = "completed" /\ chore.forced
    /\ ~IsNone(chore.due_since) /\ ~IsNone(chore.last_completed)
    /\ Len(chore.completion_history) = 1

----------------------------------------------------------------------------
\* Properties of setting up and restoring.

\* C13: restoring a snapshot from which any subset of keys is missing (of
\* the snapshot itself, of its trigger part or of its completion part)
\* raises nothing, the chore is registered, and every field whose key is
\* missing has its default: state inactive, due_since and last_completed
\* None, forced false, history empty, the trigger idle with its tracking
\* cleared, the completion idle with steps_done 0 and disabled.
C13_MissingKeys ==
    [][last'.op = "setup" /\ cfg \in Configs /\ store # None /\ store # CorruptFile
         /\ Intact(Val(store))
       => LET d == Val(store)
              tr == Get(d, "trigger", <<>>)
              co == Get(d, "completion", <<>>)
          IN /\ last'.ret = "none"
             /\ ChoreId \in chores'
             /\ "chore_state" \notin DOMAIN d => chore'.state = "inactive"
             /\ "due_since" \notin DOMAIN d => IsNone(chore'.due_since)
             /\ "last_completed" \notin DOMAIN d => IsNone(chore'.last_completed)
             /\ "forced" \notin DOMAIN d => chore'.forced = FALSE
             /\ "completion_history" \notin DOMAIN d => chore'.completion_history = <<>>
             /\ \A k \in DOMAIN NewTrigger \ DOMAIN tr : trigger'[k] = NewTrigger[k]
             /\ \A k \in DOMAIN NewCompletion \ DOMAIN co :
                    completion'[k] = NewCompletion[k]]_vars

\* A chore restored from a snapshot whose completion part has lost its
\* enabled flag and kept the rest: due since before, its completion disabled.
C13_Witness ==
    /\ last.op = "setup" /\ last.ret = "none"
    /\ chore.state = "due" /\ ~IsNone(chore.due_since)
    /\ trigger.state = "done" /\ ~completion.enabled
    /\ ~IsNone(store) /\ IsDict(Val(store)) /\ "completion" \in DOMAIN Val(store)
    /\ "enabled" \notin DOMAIN Val(store).completion

\* C14: setting up a chore whose stored snapshot is absent or corrupt (the
\* stored file or the chore's entry is no dictionary, or a state value is
\* none of the enumeration) registers the chore and leaves it inactive with
\* both of its stages idle.
C14_CorruptDefaults ==
    [][last'.op = "setup" /\ cfg \in Configs
         /\ (store = None \/ store = CorruptFile \/ ~Intact(Val(store)))
       => /\ ChoreId \in chores'
          /\ chore'.state = "inactive"
          /\ trigger'.state = "idle"
          /\ completion'.state = "idle"]_vars

\* C19: setting up with a chore whose trigger or completion type is
\* unknown, whose reset type is unknown, or whose trigger is a manual one
\* or whose completion a daily or weekly one, does not register that chore,
\* and registers the chore configured after it.
C19_BadConfig ==
    [][last'.op = "setup" /\ cfg \in BadConfigs
       => ChoreId \notin chores' /\ OtherId \in chores']_vars

----------------------------------------------------------------------------
\* Properties of the coordinator: events, commands and the store.

\* C15: a step of a run in which the chore's state changes (a poll, a
\* listener callback or a force command) puts exactly one event on the bus,
\* of the type named for the state entered (reset for inactive), with the
\* chore's id, its name, the state left and the state entered; a step in
\* which the state does not change puts none.
C15_OneEvent ==
    [][IF chore'.state # chore.state
       THEN /\ Len(last'.events) = 1
            /\ last'.events[1].event_type =
                  CASE chore'.state = "pending" -> "chores.chore_pending"
                    [] chore'.state = "due" -> "chores.chore_due"
                    [] chore'.state = "started" -> "chores.chore_started"
                    [] chore'.state = "completed" -> "chores.chore_completed"
                    [] chore'.state = "inactive" -> "chores.chore_reset"
            /\ last'.events[1].event_data.chore_id = ChoreId
            /\ last'.events[1].event_data.chore_name = ChoreName
            /\ last'.events[1].event_data.previous_state = chore.state
            /\ last'.events[1].event_data.new_state = chore'.state
       ELSE last'.events = <<>>]_vars

\* A listener callback has taken the chore back from pending to inactive,
\* and a reset event has told of it.
C15_Witness ==
    /\ last.op = "event" /\ chore.state = "inactive"
    /\ Len(last.events) = 1
    /\ last.events[1].event_type = "chores.chore_reset"
    /\ last.events[1].event_data.previous_state = "pending"

\* C16: every event put on the bus has a forced field, which is true
\* exactly when the step that made the transition was a force command.
C16_EventForced ==
    [][\A i \in 1..Len(last'.events) :
          /\ "forced" \in DOMAIN last'.events[i].event_data
          /\ last'.events[i].event_data.forced
                = (last'.op \in {"force_due", "force_inactive", "force_complete"})]_vars

\* C17: a force command that names an id no chore is registered under is
\* reported as not found, and changes nothing: not the chore, its trigger
\* or its completion, not the store in memory or on disk, and no event is
\* put on the bus.
C17_UnknownId ==
    [][last'.chore_id \notin chores
       => /\ last'.op = "not_found"
          /\ last'.events = <<>>
          /\ UNCHANGED <<chore, trigger, completion, store, saved, chores>>]_vars

\* A command has named an unknown id while the chore was due, with a change
\* in the store not yet on disk.
C17_Witness ==
    /\ last.op = "not_found" /\ last.chore_id = NoSuchId
    /\ chore.state = "due" /\ ~saved

\* C18: after every poll the store is on disk, and what it holds for the
\* chore is the chore as it is now: restored from it, a chore has the same
\* state, due_since, last_completed, forced flag and history, the same
\* trigger and the same completion.
C18_SavedAfterPoll ==
    up /\ last.op = "poll"
    => /\ saved
       /\ LET r == RegisterChore(World(NewChore, NewTrigger, NewCompletion), store, utcnow)
          IN /\ r.chore.state = chore.state
             /\ r.chore.due_since = chore.due_since
             /\ r.chore.last_completed = chore.last_completed
             /\ r.chore.forced = chore.forced
             /\ r.chore.completion_history = chore.completion_history
             /\ r.trigger = trigger
             /\ r.completion = completion

----------------------------------------------------------------------------
\* Properties of the reset.

\* C20: a step that calls evaluate() on a completed chore at a time when
\* its reset policy says "reset now" leaves the chore inactive with no
\* due_since, the trigger idle with its tracking cleared, and the
\* completion idle with steps_done 0 and disabled.
C20_ResetNow ==
    [][last'.evaluated /\ chore.state = "completed"
         /\ ShouldReset(chore.state_entered_at, utcnow')
       => /\ chore'.state = "inactive"
          /\ IsNone(chore'.due_since)
          /\ trigger'.state = "idle"
          /\ ~trigger'.machine_running /\ IsNone(trigger'.power_dropped_at)
          /\ ~trigger'.time_fired_today
          /\ IsNone(trigger'.state_since) /\ ~trigger'.duration_elapsed
          /\ completion'.state = "idle"
          /\ completion'.steps_done = 0
          /\ ~completion'.enabled]_vars

\* A chore that was due, was completed in two steps and has been reset by
\* an evaluate(): it still knows when it was completed.
C20_Witness ==
    /\ last.evaluated /\ last.ret = "completed" /\ chore.state = "inactive"
    /\ StepsTotal = 2 /\ ~chore.forced
    /\ ~IsNone(chore.last_completed) /\ Len(chore.completion_history) = 1
    /\ trigger = NewTrigger /\ completion = NewCompletion

----------------------------------------------------------------------------
\* Properties of the stages.

\* C21: the completion is enabled exactly while the chore is due or
\* started: not while it is inactive, pending or completed.
C21_EnabledIff ==
    completion.enabled <=> chore.state \in {"due", "started"}

----------------------------------------------------------------------------
\* Properties of the reset policies.

\* C22: a chore whose trigger is a power_cycle, state_change or duration
\* one and that has no reset configured has the implicit_event policy, and
\* a step that calls evaluate() on it while it is completed leaves it
\* inactive.
C22_ImplicitEvent ==
    /\ cfg.trigger.type \in {"power_cycle", "state_change", "duration"}
          /\ cfg.reset = NoReset
       => ResetType = "implicit_event"
    /\ [][cfg.trigger.type \in {"power_cycle", "state_change", "duration"}
            /\ cfg.reset = NoReset
            /\ last'.evaluated /\ chore.state = "completed"
          => chore'.state = "inactive"]_vars

\* A duration chore that was completed has been reset by the evaluate()
\* that came next, in the tick of its completion.
C22_Witness ==
    /\ cfg.trigger.type = "duration"
    /\ last.evaluated /\ last.ret = "completed" /\ chore.state = "inactive"
    /\ chore.last_completed = Some(utcnow)


\* The first instant strictly after completed_at whose time of day is t.
C23_NextOccurrence(completed_at, t) ==
    CHOOSE at \in (completed_at + 1)..(completed_at + DayLen) : at % DayLen = t

\* The time of day a daily reset policy is configured with.
C23_ResetTime ==
    IF ResetType = "daily_reset" THEN cfg.reset.time ELSE cfg.trigger.time

\* C23: under daily_reset(time) and implicit_daily(triggerTime) an evaluate()
\* of a completed chore resets it if and only if the clock has reached the
\* next occurrence of the configured time strictly after the completion: it
\* is reset by the first evaluate() at or after that moment and by none
\* before it, and a completion exactly at the configured time waits for the
\* occurrence of the next day.
C23_DailyReset ==
    [][(/\ ResetType \in {"daily_reset", "implicit_daily"}
        /\ last'.evaluated
        /\ chore.state = "completed")
       => LET at == C23_NextOccurrence(Val(chore.last_completed), C23_ResetTime)
          IN chore'.state = "inactive" <=> utcnow' >= at]_vars

\* A chore completed exactly at its trigger time has been reset one day later.
C23_Witness ==
    /\ ResetType = "implicit_daily"
    /\ last.evaluated /\ last.ret = "completed" /\ chore.state = "inactive"
    /\ Val(chore.last_completed) % DayLen = cfg.trigger.time
    /\ utcnow = Val(chore.last_completed) + DayLen


\* The first instant strictly after completed_at that an entry of the
\* schedule names: its weekday and its time of day.
C24_NextEntry(completed_at, schedule) ==
    CHOOSE at \in (completed_at + 1)..(completed_at + 7 * DayLen) :
        /\ \E i \in 1..Len(schedule) :
              WeekdayOf(at) = schedule[i][1] /\ at % DayLen = schedule[i][2]
        /\ \A before \in (completed_at + 1)..(at - 1) :
              \A i \in 1..Len(schedule) :
                  ~(WeekdayOf(before) = schedule[i][1] /\ before % DayLen = schedule[i][2])

\* C24: under implicit_weekly(schedule) an evaluate() of a completed chore
\* resets it if and only if the clock has reached the earliest (weekday,
\* time) entry of the schedule strictly after the completion, which lies in
\* the following week when the week of the completion has no entry left.
C24_WeeklyReset ==
    [][(/\ ResetType = "implicit_weekly"
        /\ last'.evaluated
        /\ chore.state = "completed")
       => LET at == C24_NextEntry(Val(chore.last_completed), cfg.trigger.schedule)
          IN chore'.state = "inactive" <=> utcnow' >= at]_vars

\* A chore completed last week, after the last entry of that week, has been
\* reset at the first entry of this week.
C24_Witness ==
    /\ ResetType = "implicit_weekly"
    /\ last.evaluated /\ last.ret = "completed" /\ chore.state = "inactive"
    /\ Val(chore.last_completed) < 0
    /\ utcnow = C24_NextEntry(Val(chore.last_completed), cfg.trigger.schedule)


----------------------------------------------------------------------------
\* Properties of the detectors.

\* C25: a chore configured with a sensor_threshold completion is set up;
\* when it becomes due while the sensor's value already satisfies the
\* threshold, the completion is done by enable(), with no sensor event, and
\* the next evaluate() takes the chore to completed.
C25_ThresholdOnEnable ==
    /\ [][last'.op = "setup" /\ cfg.completion.type = "sensor_threshold"
          => ChoreId \in chores']_vars
    /\ [][(/\ cfg.completion.type = "sensor_threshold"
           /\ chore.state # "due" /\ chore'.state = "due"
           /\ CheckThreshold(hass'))
          => completion'.state = "done"]_vars
    /\ [][(/\ cfg.completion.type = "sensor_threshold"
           /\ chore.state = "due" /\ completion.state = "done"
           /\ last'.evaluated)
          => chore'.state = "completed"]_vars


\* A step in which the power sensor is heard to be unavailable.
C26_HeardUnavailable ==
    /\ cfg.trigger.type = "power_cycle"
    /\ last'.op = "event" /\ utcnow' = utcnow
    /\ hass' = [hass EXCEPT !.power = "unavailable"]

\* C26 as stated: a sensor event processed while the power read is
\* unavailable leaves the detector's state, its machine-running flag and its
\* cooldown start time unchanged.
C26_UnavailableHolds ==
    [][C26_HeardUnavailable
       => /\ trigger'.state = trigger.state
          /\ trigger'.machine_running = trigger.machine_running
          /\ trigger'.power_dropped_at = trigger.power_dropped_at]_vars

\* C26 as amended: the event is never taken as "below threshold": it never
\* starts the cooldown, never sets the machine-running flag and never moves
\* the detector out of idle; what changes in the step is what the evaluate()
\* that follows the event does: the detector goes from active to done when
\* the cooldown that was running has elapsed, or is reset with the chore.
C26_UnavailableNotBelow ==
    [][C26_HeardUnavailable
       => /\ IsNone(trigger.power_dropped_at) => IsNone(trigger'.power_dropped_at)
          /\ ~trigger.machine_running => ~trigger'.machine_running
          /\ trigger.state = "idle" => trigger'.state = "idle"
          /\ \/ /\ trigger'.state = trigger.state
                /\ trigger'.machine_running = trigger.machine_running
                /\ trigger'.power_dropped_at = trigger.power_dropped_at
             \/ /\ trigger.state = "active" /\ trigger'.state = "done"
                /\ ~IsNone(trigger.power_dropped_at)
                /\ utcnow - Val(trigger.power_dropped_at) >= cfg.trigger.cooldown_minutes
                /\ trigger'.power_dropped_at = trigger.power_dropped_at
                /\ ~trigger'.machine_running
             \/ /\ chore.state = "completed" /\ chore'.state = "inactive"
                /\ trigger'.state = "idle"
                /\ ~trigger'.machine_running
                /\ IsNone(trigger'.power_dropped_at)]_vars

\* The sensor of a running machine has been heard to be unavailable, and no
\* cooldown has started.
C26_Witness ==
    /\ cfg.trigger.type = "power_cycle"
    /\ last.op = "event" /\ hass.power = "unavailable"
    /\ trigger.state = "active" /\ trigger.machine_running
    /\ IsNone(trigger.power_dropped_at)


\* C27: a power read that is present but not a number is never taken for a
\* reading below the threshold: the step that hears it does not start the
\* cooldown, and leaves a detector that the following evaluate() has no
\* cause to move as it was.
C27_NonNumericHolds ==
    [][(/\ cfg.trigger.type = "power_cycle"
        /\ last'.op = "event" /\ utcnow' = utcnow
        /\ hass' = [hass EXCEPT !.power = "abc"]
        /\ IsNone(trigger.power_dropped_at))
       => /\ IsNone(trigger'.power_dropped_at)
          /\ chore.state # "completed" => trigger' = trigger]_vars


\* A step in which the power sensor is heard to report v.
C28_Heard(v) ==
    /\ cfg.trigger.type = "power_cycle"
    /\ last'.op = "event" /\ utcnow' = utcnow
    /\ hass' = [hass EXCEPT !.power = v]

C29_Ignored ==
    /\ cfg.trigger.type = "duration"
    /\ last'.op = "event" /\ utcnow' = utcnow
    /\ \E v \in EntityValues :
          /\ hass' = [hass EXCEPT !.entity = v]
          /\ v = "unavailable" \/ hass.entity = "unavailable" \/ v = hass.entity

\* The detector is reset: with the completed chore, or by force_inactive.
C29_Reset ==
    \/ chore.state = "completed" /\ chore'.state = "inactive"
    \/ last'.op = "force_inactive"

\* C29: the time at which the entity entered the target value, once
\* recorded, is left alone by a transition to or from unavailable/unknown
\* and by an attribute-only change; it is never restarted; it is cleared,
\* the detector returning to idle, only when the entity is seen in a
\* readable value other than the target before the duration has elapsed,
\* or by reset().
C29_TimerKept ==
    /\ [][C29_Ignored => trigger'.state_since = trigger.state_since]_vars
    /\ [][(/\ cfg.trigger.type = "duration"
           /\ ~IsNone(trigger.state_since)
           /\ trigger'.state_since # trigger.state_since)
          => /\ IsNone(trigger'.state_since)
             /\ trigger'.state = "idle"
             /\ \/ C29_Reset
                \/ /\ hass'.entity \notin {"unavailable", "unknown", cfg.trigger.state}
                   /\ utcnow' - Val(trigger.state_since) < cfg.trigger.duration_hours]_vars


\* Today has a schedule entry whose time of day has been reached: every day
\* for a daily trigger, the weekdays of the schedule for a weekly one.
C30_ReachedToday(now) ==
    IF cfg.trigger.type = "daily"
    THEN now % DayLen >= cfg.trigger.time
    ELSE \E i \in 1..Len(cfg.trigger.schedule) :
            /\ cfg.trigger.schedule[i][1] = WeekdayOf(now)
            /\ now % DayLen >= cfg.trigger.schedule[i][2]

\* C30: a daily or weekly detector that is idle and has not fired leaves
\* idle in a step that calls evaluate() (and does not reset it with the
\* chore) if and only if today has a schedule entry whose time has been
\* reached; on a weekday without an entry a weekly chore that is inactive
\* stays inactive, whatever its gate.
C30_FiresIffReached ==
    /\ [][(/\ cfg.trigger.type \in {"daily", "weekly"}
           /\ last'.evaluated
           /\ trigger.state = "idle" /\ ~trigger.time_fired_today
           /\ ~(chore.state = "completed" /\ chore'.state = "inactive"))
          => (trigger'.state # "idle" <=> C30_ReachedToday(utcnow'))]_vars
    /\ [][(/\ cfg.trigger.type = "weekly"
           /\ last'.evaluated
           /\ chore.state = "inactive"
           /\ trigger.state = "idle" /\ ~trigger.time_fired_today
           /\ \A i \in 1..Len(cfg.trigger.schedule) :
                 cfg.trigger.schedule[i][1] # WeekdayOf(utcnow'))
          => chore'.state = "inactive"]_vars


\* The trigger stage is holding at active on its gate: the time has fired,
\* or the duration has elapsed, and the gate was found unmet.
C31_Holding ==
    /\ cfg.trigger.gate
    /\ trigger.state = "active"
    /\ cfg.trigger.type = "duration" => trigger.duration_elapsed

\* C31: when the stage is holding on its gate and the gate entity has the
\* expected value at a poll, the stage is done after the poll, although no
\* gate-change event released it.
C31_GateRecheck ==
    [][(/\ C31_Holding
        /\ last'.op = "poll"
        /\ hass.gate = cfg.trigger.gate_state)
       => trigger'.state = "done"]_vars


\* A step in which the entity named by field is heard to change from
\* unavailable to a value it can be read at.
C32_FromUnavailable(field) ==
    /\ last'.op = "event" /\ utcnow' = utcnow
    /\ hass[field] = "unavailable"
    /\ hass'[field] # "unavailable"
    /\ \A f \in DOMAIN hass \ {field} : hass'[f] = hass[f]

\* C32: a change event whose prior value is unavailable or unknown does not
\* change the state of a contact_cycle or presence_cycle completion, nor
\* that of a duration trigger, and does not release a trigger that is
\* holding on its gate.
C32_StartupNoise ==
    /\ [][(/\ cfg.completion.type \in {"contact_cycle", "presence_cycle"}
           /\ C32_FromUnavailable("completion"))
          => completion'.state = completion.state]_vars
    /\ [][(/\ cfg.trigger.type = "duration"
           /\ C32_FromUnavailable("entity"))
          => trigger'.state = trigger.state]_vars
    /\ [][(/\ cfg.trigger.gate
           /\ trigger.state = "active"
           /\ C32_FromUnavailable("gate"))
          => trigger'.state = "active"]_vars


\* C33: a contact_cycle detector becomes active only after the contact has
\* stayed open for the whole debounce window, so the event that reports the
\* contact open leaves an idle detector idle: the activation is pending and
\* a close event, or reset(), can still cancel it.
C33_Debounce ==
    [][(/\ cfg.completion.type = "contact_cycle"
        /\ last'.op = "event" /\ utcnow' = utcnow
        /\ hass.completion = "off"
        /\ hass' = [hass EXCEPT !.completion = "on"]
        /\ completion.state = "idle")
       => completion'.state = "idle"]_vars


\* A step in which the entity the completion watches is heard to change.
C34_Heard ==
    /\ cfg.completion.type # "manual"
    /\ last'.op = "event" /\ utcnow' = utcnow
    /\ hass'.completion # hass.completion
    /\ \A f \in DOMAIN hass \ {"completion"} : hass'[f] = hass[f]

\* C34: while the completion stage is disabled, an event of the entity it
\* watches changes neither its state nor its steps_done, and no callback
\* reaches the chore: the chore is not evaluated and stays as it is;
\* disable() itself leaves the state and steps_done it finds, so that after
\* force_complete the stage is done, with all steps, and disabled.
C34_DisabledIgnores ==
    /\ [][(C34_Heard /\ ~completion.enabled)
          => /\ completion' = completion
             /\ ~last'.evaluated
             /\ chore' = chore]_vars
    /\ [][last'.op = "force_complete"
          => /\ completion'.state = "done"
             /\ completion'.steps_done = StepsTotal
             /\ ~completion'.enabled]_vars
    /\ [](/\ CompletionDisable(completion).state = completion.state
          /\ CompletionDisable(completion).steps_done = completion.steps_done)

\* The watched entity reported its target value while the completion was
\* disabled and not yet done.
C34_Witness ==
    /\ cfg.completion.type \in {"contact", "sensor_state"}
    /\ last.op = "event" /\ ~last.evaluated
    /\ hass.completion = "on"
    /\ ~completion.enabled /\ completion.state = "idle"


C35_Rank(s) == CASE s = "idle" -> 0 [] s = "active" -> 1 [] OTHER -> 2

\* A step in which the trigger, or the completion, ends nearer to idle than
\* it began.
C35_TriggerBack == C35_Rank(trigger'.state) < C35_Rank(trigger.state)

C35_CompletionBack == C35_Rank(completion'.state) < C35_Rank(completion.state)

\* A step with an explicit reset() or set_state() from outside the
\* detector: the reset of a completed chore, or a force command.
C35_Explicit ==
    \/ last'.evaluated /\ chore.state = "completed" /\ chore'.state = "inactive"
    \/ last'.op \in {"force_due", "force_inactive", "force_complete"}

C35_TimerAbandoned ==
    /\ cfg.trigger.type = "duration"
    /\ trigger.state = "active" /\ ~trigger.duration_elapsed
    /\ trigger'.state = "idle" /\ IsNone(trigger'.state_since)
    /\ hass'.entity \notin {cfg.trigger.state, "unknown", "unavailable"}

C37_Forces == {"force_due", "force_inactive", "force_complete"}

\* C37: a step that changes the chore's state leaves forced true exactly
\* when the step is a force command, so false whenever evaluate() made the
\* change; a step that leaves the state alone leaves forced alone.
C37_ForcedIffForce ==
    [][/\ chore'.state # chore.state
          => /\ chore'.forced = (last'.op \in C37_Forces)
             /\ last'.evaluated => ~chore'.forced
       /\ chore'.state = chore.state => chore'.forced = chore.forced]_vars

\* A chore that a command had made due has been completed by its sensor:
\* evaluate() has cleared the mark.
C37_Witness ==
    /\ chore.state = "completed" /\ ~chore.forced
    /\ last.op = "event" /\ last.evaluated /\ last.ret = "due"
    /\ Len(chore.completion_history) > 0
    /\ IsNone(trigger.state_since) /\ ~trigger.time_fired_today /\ trigger.state = "done"


\* The completion of a chore as the claim wants it: idle, no step
\* done and disabled while the chore is inactive or pending.
C38_Idle(ch, c) ==
    ch.state \in {"inactive", "pending"}
        => c.state = "idle" /\ c.steps_done = 0 /\ ~c.enabled

C39_DueEarlierToday ==
    /\ utcnow' \div DayLen = 0
    /\ Len(chore.completion_history) > 0
    /\ chore.completion_history[Len(chore.completion_history)].completed_by = "sensor"

\* C39: a chore with a daily trigger that has been due today does not
\* enter due again today by evaluate(), in a poll or in the time listener's
\* callback, whatever the reset policy.
C39_OncePerDay ==
    [][(/\ cfg.trigger.type = "daily"
        /\ last'.evaluated
        /\ chore.state # "due" /\ chore'.state = "due")
       => ~C39_DueEarlierToday]_vars


\* The model's clock has stopped at its horizon before the reset policy's
\* moment for the completed chore has come.
C40_Horizon ==
    /\ utcnow = MaxTime
    /\ chore.state = "completed"
    /\ ~ShouldReset(chore.state_entered_at, utcnow)

====
